---- MODULE Spec2Model ----
(***************************************************************************)
(* Model of the OpenID-Connect authorization-code flow of the admin panel: *)
(* controller/auth_manager (AuthManager, PKCE) driven over one shared      *)
(* web_sys::Storage.                                                       *)
(*                                                                         *)
(* An Option<T> of the source is a sequence of length 0 or 1.  Secrets     *)
(* (verifier, csrf, nonce) are the number of the init_authentication call  *)
(* that drew them, so that every draw is a fresh value, as 16 or 32 random *)
(* bytes are.                                                              *)
(***************************************************************************)
EXTENDS Integers, Sequences, FiniteSets, TLC

\* ------------------------------------------------------------------ bounds
\* init_authentication calls that draw fresh secrets
MaxGen == 2
\* query parameters of a redirect URL handed to get_response
MaxPairs == 3

\* ------------------------------------------------------------------ Option
None == << >>
Some(x) == << x >>
IsSome(o) == o # None
Unwrap(o) == o[1]

\* ------------------------------------------------------------------ domains
ID_VERIFIER == "verifier"
ID_CSRF == "csrf"
ID_NONCE == "nonce"
StoreKeys == {ID_VERIFIER, ID_CSRF, ID_NONCE}

\* the secrets drawn so far can be at most 1..MaxGen; 0 is a string nobody drew
Secrets == 1..MaxGen
States == 0..MaxGen
Codes == {"c1"}

\* the sets of keys whose Storage::get fails in one call: none, one, all
GetErrs == {{}, {ID_CSRF}, StoreKeys}

AccessTokens == {11, 12}
RefreshTokens == {9}

\* AccessTokenHash::from_token: a digest of the access token
AtHash(t) == 50 + t
\* PkceCodeChallenge::new_random_sha256: challenge = S256(verifier)
S256(v) == 100 + v

\* header algorithm of an id token: "RS256" is usable, "enc" has no signing
\* algorithm (signing_alg fails), "nohash" has no digest (from_token fails)
Algs == {"RS256", "enc", "nohash"}

\* (the algorithm is looked at only when the claims carry an at_hash)
IdTokens == {i \in [valid : BOOLEAN, nonce : Secrets,
                    at_hash : {None, Some(AtHash(11))}, alg : Algs] :
                i.at_hash = None => i.alg = "RS256"}

\* the result of the token request: an error, or a token response
ErrResponse == [ok |-> FALSE, access_token |-> 0, refresh_token |-> None,
                id_token |-> None]
TokenResponses == [ok : {TRUE}, access_token : AccessTokens,
                   refresh_token : {None} \cup {Some(r) : r \in RefreshTokens},
                   id_token : {None} \cup {Some(i) : i \in IdTokens}]
TokenResults == {ErrResponse} \cup TokenResponses

\* ------------------------------------------------------------------ state
VARIABLES
    auth,       \* the fields of the live AuthManager instance (Framework::new
                \* builds a new one over the same Storage)
    storage,    \* the web_sys::Storage: a map from the keys set to their strings
    pc,         \* "ready" | "awaiting" (exchange_token suspended) | "dropped"
    locals,     \* Option<locals of the suspended exchange_token>
    gen,        \* number of secrets drawn so far
    requests,   \* token requests sent by the live instance
    consumed,   \* challenge material destructured by an exchange_token so far
    phase,      \* "Idle" | "Initiated" | "Completed" | "Failed"
    ret,        \* the last call: its operation, inputs and returned value
    response,   \* the query pairs of the redirect URL given to get_response
    parsed      \* Option<the value get_response returned for it>

parseVars == << response, parsed >>
vars == << auth, storage, pc, locals, gen, requests, consumed, phase, ret,
           response, parsed >>

\* ------------------------------------------------------------------ PKCE
\* PKCE::new
PkceNew(verifier, csrf, nonce) ==
    [verifier |-> verifier, csrf |-> csrf, nonce |-> nonce]

\* Storage::get of one key: the storage is a map from the keys that are set
StorageGet(st, key) == IF key \in DOMAIN st THEN Some(st[key]) ELSE None

\* Storage::set of one key
StorageSet(st, key, value) ==
    [k \in DOMAIN st \cup {key} |-> IF k = key THEN value ELSE st[k]]

\* a store that writes the csrf secret under the nonce key as well
PkceStoreCopyPaste(p, st, failAt) ==
    LET st1 == IF failAt = 1 THEN st ELSE StorageSet(st, ID_VERIFIER, p.verifier)
        st2 == IF failAt \in {1, 2} THEN st1 ELSE StorageSet(st1, ID_CSRF, p.csrf)
        st3 == IF failAt \in {1, 2, 3} THEN st2 ELSE StorageSet(st2, ID_NONCE, p.csrf)
    IN  [ok |-> failAt = 0, storage |-> st3]

\* PKCE::store: three writes in sequence, `?` returns at the first failing
\* one; failAt = 0 means that no write fails, failAt = k that the k-th does
PkceStore(p, st, failAt) ==
    LET st1 == IF failAt = 1 THEN st ELSE StorageSet(st, ID_VERIFIER, p.verifier)
        st2 == IF failAt \in {1, 2} THEN st1 ELSE StorageSet(st1, ID_CSRF, p.csrf)
        st3 == IF failAt \in {1, 2, 3} THEN st2 ELSE StorageSet(st2, ID_NONCE, p.nonce)
    IN  [ok |-> failAt = 0, storage |-> st3]

\* a load that fails only when all three keys are absent, and reads an
\* absent key of a partial record as the empty string (0)
PkceLoadFromAnyKey(st, getErr) ==
    LET val(k) == IF StorageGet(st, k) = None THEN 0
                  ELSE Unwrap(StorageGet(st, k))
    IN  IF getErr # {} THEN [ok |-> FALSE, err |-> "js_error", pkce |-> None]
        ELSE IF \A k \in StoreKeys : StorageGet(st, k) = None
        THEN [ok |-> FALSE, err |-> "no_data", pkce |-> None]
        ELSE [ok |-> TRUE, err |-> "ok",
              pkce |-> Some(PkceNew(val(ID_VERIFIER), val(ID_CSRF), val(ID_NONCE)))]

\* a load that reads an absent key as the empty string (0)
PkceLoadFromLenient(st, getErr) ==
    LET val(k) == IF k \in getErr \/ StorageGet(st, k) = None THEN 0
                  ELSE Unwrap(StorageGet(st, k))
    IN  [ok |-> TRUE, err |-> "ok",
         pkce |-> Some(PkceNew(val(ID_VERIFIER), val(ID_CSRF), val(ID_NONCE)))]

\* PKCE::load_from: getErr is the set of keys whose Storage::get fails.
\* First arm: all three present; second arm: some get found nothing;
\* third arm: some get failed.
PkceLoadFrom(st, getErr) ==
    LET got(k) == IF k \in getErr THEN "err"
                  ELSE IF StorageGet(st, k) = None THEN "none" ELSE "some"
    IN  IF \A k \in StoreKeys : got(k) = "some"
        THEN [ok |-> TRUE, err |-> "ok",
              pkce |-> Some(PkceNew(Unwrap(StorageGet(st, ID_VERIFIER)),
                                    Unwrap(StorageGet(st, ID_CSRF)),
                                    Unwrap(StorageGet(st, ID_NONCE))))]
        ELSE IF \E k \in StoreKeys : got(k) = "none"
        THEN [ok |-> FALSE, err |-> "no_data", pkce |-> None]
        ELSE [ok |-> FALSE, err |-> "js_error", pkce |-> None]

\* ------------------------------------------------------------------ AuthManager
\* AuthManager::new
AuthManagerNew ==
    [pkce |-> None, client |-> TRUE, id_token |-> None,
     access_token |-> None, refresh_token |-> None, claims |-> None]

\* a store that persists the access token next to the material
AuthStoreWithTokens(a, st, failAt) ==
    LET w == IF IsSome(a.pkce) THEN PkceStore(Unwrap(a.pkce), st, failAt)
             ELSE [ok |-> TRUE, storage |-> st]
    IN  IF w.ok /\ IsSome(a.access_token)
        THEN [ok |-> TRUE,
              storage |-> StorageSet(w.storage, "access_token",
                                     Unwrap(a.access_token))]
        ELSE w

\* AuthManager::store
AuthStore(a, st, failAt) ==
    IF IsSome(a.pkce) THEN PkceStore(Unwrap(a.pkce), st, failAt)
    ELSE [ok |-> TRUE, storage |-> st]

\* a load that rebuilds self from its defaults around the loaded material
AuthLoadRebuild(a, st, getErr) ==
    LET l == PkceLoadFrom(st, getErr)
    IN  [ok |-> l.ok, err |-> l.err,
         auth |-> IF l.ok
                  THEN [pkce |-> l.pkce, client |-> a.client, id_token |-> None,
                        access_token |-> None, refresh_token |-> None,
                        claims |-> None]
                  ELSE a]

\* AuthManager::load: self.pkce is assigned only when load_from succeeded
AuthLoad(a, st, getErr) ==
    LET l == PkceLoadFrom(st, getErr)
    IN  [ok |-> l.ok, err |-> l.err,
         auth |-> IF l.ok THEN [a EXCEPT !.pkce = l.pkce] ELSE a]

\* an authorization URL whose state is not the csrf token kept in the material
AuthorizeUrlOwnState(verifier, csrf, nonce) ==
    [state |-> 0, nonce |-> nonce, code_challenge |-> S256(verifier)]

\* client.authorize_url(..).set_pkce_challenge(challenge).url()
AuthorizeUrl(verifier, csrf, nonce) ==
    [state |-> csrf, nonce |-> nonce, code_challenge |-> S256(verifier)]

\* an init_authentication that keeps the material of an earlier attempt
InitSetPkceKeepOld(a, p) ==
    IF IsSome(a.pkce) THEN a ELSE [a EXCEPT !.pkce = Some(p)]

\* init_authentication, line 188: the new material replaces the old
InitSetPkce(a, p) == [a EXCEPT !.pkce = Some(p)]

\* an exchange_token that borrows the client and leaves it in self
TakeClientKeep(a) == a

\* exchange_token, lines 245-254: the client is moved out of self
TakeClient(a) == [a EXCEPT !.client = FALSE]

\* exchange_token, lines 256-257: the material is moved out of self
TakePkce(a) == [a EXCEPT !.pkce = None]

\* a comparison that lets every state through
CsrfMatchesAny(csrf, state) == TRUE

\* exchange_token, line 260: csrf.secret() != state.secret() is the mismatch
CsrfMatches(csrf, state) == csrf = state

\* an exchange_token that reads the store whatever self holds
NeedsLoadAlways(a) == TRUE

\* exchange_token, line 229: the store is read only if self holds no material
NeedsLoad(a) == a.pkce = None

\* the value returned by a call of exchange_token that ends before the await
Returned(a, err, used) ==
    [auth |-> a, err |-> err, used |-> used, locals |-> None]

\* exchange_token up to the await of line 274.  err = "pending" means that
\* the token request was sent and the call is suspended with its locals.
ExchangeHead(a, st, code, state, hasStore, getErr) ==
    IF NeedsLoad(a) /\ ~hasStore
    THEN Returned(a, "not_initiated", None)
    ELSE
    LET l == IF NeedsLoad(a) THEN AuthLoad(a, st, getErr)
             ELSE [ok |-> TRUE, err |-> "ok", auth |-> a]
    IN  IF ~l.ok THEN Returned(l.auth, "load_failed", None)
        ELSE IF ~l.auth.client THEN Returned(l.auth, "no_client", None)
        ELSE
        LET p == Unwrap(l.auth.pkce)
            a2 == TakePkce(TakeClient(l.auth))
        IN  IF ~CsrfMatches(p.csrf, state)
            THEN Returned(a2, "csrf", Some(p))
            ELSE [auth |-> a2, err |-> "pending", used |-> Some(p),
                  locals |-> Some([code |-> code, state |-> state,
                                   verifier |-> p.verifier, csrf |-> p.csrf,
                                   nonce |-> p.nonce])]

\* id_token.claims(&client.id_token_verifier(), &nonce): the claims, when the
\* token verifies and carries the expected nonce
IdTokenClaims(id, nonce) ==
    IF id.valid /\ id.nonce = nonce
    THEN Some([nonce |-> id.nonce, at_hash |-> id.at_hash])
    ELSE None

\* a hash check that computes the hash and forgets to compare it
AccessTokenHashCheckNoCompare(claims, id, access_token) ==
    IF claims.at_hash = None THEN "ok"
    ELSE IF id.alg = "enc" THEN "signing_alg"
    ELSE IF id.alg = "nohash" THEN "hash_alg"
    ELSE "ok"

\* exchange_token, lines 305-331: the access token hash check
AccessTokenHashCheck(claims, id, access_token) ==
    IF claims.at_hash = None THEN "ok"
    ELSE IF id.alg = "enc" THEN "signing_alg"
    ELSE IF id.alg = "nohash" THEN "hash_alg"
    ELSE IF Unwrap(claims.at_hash) # AtHash(access_token) THEN "tamper"
    ELSE "ok"

\* a save that forgets the claims
SaveTokensNoClaims(a, tokens, id, claims) ==
    [a EXCEPT !.id_token = Some(id),
              !.access_token = Some(tokens.access_token),
              !.refresh_token = tokens.refresh_token]

\* a save that forgets the refresh token
SaveTokensNoRefresh(a, tokens, id, claims) ==
    [a EXCEPT !.id_token = Some(id),
              !.access_token = Some(tokens.access_token),
              !.claims = Some(claims)]

\* exchange_token, lines 333-340
SaveTokens(a, tokens, id, claims) ==
    [a EXCEPT !.id_token = Some(id),
              !.access_token = Some(tokens.access_token),
              !.refresh_token = tokens.refresh_token,
              !.claims = Some(claims)]

\* an exchange_token that writes the access and refresh token to self as soon
\* as the token request returned them, before the id token is checked
ExchangeTailSaveFirst(a, l, token_result) ==
    IF ~token_result.ok THEN [auth |-> a, err |-> "exchange"]
    ELSE
    LET a1 == [a EXCEPT !.access_token = Some(token_result.access_token),
                        !.refresh_token = token_result.refresh_token]
    IN  IF token_result.id_token = None THEN [auth |-> a1, err |-> "no_id_token"]
        ELSE
        LET id == Unwrap(token_result.id_token)
            c == IdTokenClaims(id, l.nonce)
        IN  IF c = None THEN [auth |-> a1, err |-> "claims"]
            ELSE
            LET h == AccessTokenHashCheck(Unwrap(c), id, token_result.access_token)
            IN  IF h # "ok" THEN [auth |-> a1, err |-> h]
                ELSE [auth |-> SaveTokens(a1, token_result, id, Unwrap(c)),
                      err |-> "ok"]

\* exchange_token from line 276 on: token_result is what the await yielded
ExchangeTail(a, l, token_result) ==
    IF ~token_result.ok THEN [auth |-> a, err |-> "exchange"]
    ELSE IF token_result.id_token = None THEN [auth |-> a, err |-> "no_id_token"]
    ELSE
    LET id == Unwrap(token_result.id_token)
        c == IdTokenClaims(id, l.nonce)
    IN  IF c = None THEN [auth |-> a, err |-> "claims"]
        ELSE
        LET h == AccessTokenHashCheck(Unwrap(c), id, token_result.access_token)
        IN  IF h # "ok" THEN [auth |-> a, err |-> h]
            ELSE [auth |-> SaveTokens(a, token_result, id, Unwrap(c)),
                  err |-> "ok"]

\* a Storage in which no key is set
EmptyStorage == [k \in {} |-> 0]

\* the record of a call
Ret0 == [op |-> "new", err |-> "ok", state |-> None, used |-> None,
         url |-> None]

Constructed ==
    /\ auth = AuthManagerNew
    /\ storage = EmptyStorage
    /\ pc = "ready"
    /\ locals = None
    /\ gen = 0
    /\ requests = 0
    /\ consumed = {}
    /\ phase = "Idle"
    /\ ret = Ret0

Init ==
    /\ Constructed
    /\ response = << >>
    /\ parsed = None

\* Framework::new / AuthManager::new: the page is loaded again and a new
\* instance is built over the same Storage; the old instance is gone
New ==
    /\ pc \in {"ready", "dropped"}
    /\ auth' = AuthManagerNew
    /\ pc' = "ready"
    /\ requests' = 0
    /\ phase' = "Idle"
    /\ ret' = Ret0
    /\ UNCHANGED << storage, locals, gen, consumed, parseVars >>

\* AuthManager::init_authentication.  The verifier drawn at line 173 is
\* dropped unseen when no client is set, so no secret counts as drawn then.
InitAuthentication(failAt) ==
    /\ pc = "ready"
    /\ IF ~auth.client
       THEN /\ ret' = [Ret0 EXCEPT !.op = "init_authentication",
                                   !.err = "no_client_init"]
            /\ UNCHANGED << auth, storage, gen, phase >>
       ELSE /\ gen < MaxGen
            /\ LET n == gen + 1
                   p == PkceNew(n, n, n)
                   a == InitSetPkce(auth, p)
                   w == AuthStore(a, storage, failAt)
               IN  /\ gen' = n
                   /\ auth' = a
                   /\ storage' = w.storage
                   /\ phase' = IF w.ok THEN "Initiated" ELSE phase
                   /\ ret' = [Ret0 EXCEPT
                                !.op = "init_authentication",
                                !.err = IF w.ok THEN "ok" ELSE "storage",
                                !.url = IF w.ok
                                        THEN Some(AuthorizeUrl(p.verifier, p.csrf, p.nonce))
                                        ELSE None]
    /\ UNCHANGED << pc, locals, requests, consumed, parseVars >>

\* AuthManager::store called by the host
Store(failAt) ==
    /\ pc = "ready"
    /\ LET w == AuthStore(auth, storage, failAt)
       IN  /\ storage' = w.storage
           /\ ret' = [Ret0 EXCEPT !.op = "store",
                                  !.err = IF w.ok THEN "ok" ELSE "storage"]
    /\ UNCHANGED << auth, pc, locals, gen, requests, consumed, phase, parseVars >>

\* AuthManager::load called by the host
Load(getErr) ==
    /\ pc = "ready"
    /\ LET l == AuthLoad(auth, storage, getErr)
       IN  /\ auth' = l.auth
           /\ ret' = [Ret0 EXCEPT !.op = "load", !.err = l.err]
    /\ UNCHANGED << storage, pc, locals, gen, requests, consumed, phase, parseVars >>

\* AuthManager::exchange_token, from the call to its first return or to the
\* await of the token request
ExchangeStart(code, state, hasStore, getErr) ==
    /\ pc = "ready"
    /\ LET h == ExchangeHead(auth, storage, code, state, hasStore, getErr)
           sent == h.err = "pending"
       IN  /\ auth' = h.auth
           /\ pc' = IF sent THEN "awaiting" ELSE pc
           /\ locals' = h.locals
           /\ requests' = IF sent THEN requests + 1 ELSE requests
           /\ consumed' = IF IsSome(h.used) THEN consumed \cup {Unwrap(h.used)}
                          ELSE consumed
           /\ phase' = IF sent THEN phase ELSE "Failed"
           /\ ret' = [Ret0 EXCEPT
                        !.op = "exchange_token", !.err = h.err,
                        !.state = Some(state), !.used = h.used]
    /\ UNCHANGED << storage, gen, parseVars >>

\* AuthManager::exchange_token, from the return of the awaited token request
\* to the return of the call
ExchangeResume(token_result) ==
    /\ pc = "awaiting"
    /\ LET l == Unwrap(locals)
           t == ExchangeTail(auth, l, token_result)
       IN  /\ auth' = t.auth
           /\ phase' = IF t.err = "ok" THEN "Completed" ELSE "Failed"
           /\ ret' = [Ret0 EXCEPT
                        !.op = "exchange_token", !.err = t.err,
                        !.state = Some(l.state),
                        !.used = Some(PkceNew(l.verifier, l.csrf, l.nonce))]
    /\ pc' = "ready"
    /\ locals' = None
    /\ UNCHANGED << storage, gen, requests, consumed, parseVars >>

\* the host drops the future of exchange_token while it is suspended: the
\* AuthManager moved into the call is dropped with it
Abandon ==
    /\ pc = "awaiting"
    /\ pc' = "dropped"
    /\ locals' = None
    /\ ret' = [Ret0 EXCEPT !.op = "drop"]
    /\ UNCHANGED << auth, storage, gen, requests, consumed, phase, parseVars >>

Next ==
    \/ New
    \/ \E failAt \in 0..3 : InitAuthentication(failAt)
    \/ \E failAt \in 0..3 : Store(failAt)
    \/ \E getErr \in GetErrs : Load(getErr)
    \/ \E code \in Codes, state \in States, hasStore \in BOOLEAN,
          getErr \in GetErrs :
            ExchangeStart(code, state, hasStore, getErr)
    \/ \E token_result \in TokenResults : ExchangeResume(token_result)
    \/ Abandon

Spec == Init /\ [][Next]_vars

\* ------------------------------------------------------------------ get_response
URL_AUTH_CODE == "code"
URL_STATE == "state"

\* the keys and values of the query pairs tried: the two keys get_response
\* looks up and one it does not
QueryKeys == {URL_AUTH_CODE, URL_STATE, "session_state"}
QueryValues == {"a", "b"}
QueryPairs == QueryKeys \X QueryValues

\* url.query_pairs() of the redirect URLs tried: up to MaxPairs pairs
Urls == UNION {[1..n -> QueryPairs] : n \in 0..MaxPairs}

\* HashMap::insert
HashMapInsert(m, key, value) ==
    [k \in DOMAIN m \cup {key} |-> IF k = key THEN value ELSE m[k]]

\* url.query_pairs().map(..).collect(): the pairs are inserted in the order
\* of the URL, a later pair replaces an earlier one with the same key
RECURSIVE Collect(_, _)
Collect(pairs, n) ==
    IF n = 0 THEN [k \in {} |-> ""]
    ELSE HashMapInsert(Collect(pairs, n - 1), pairs[n][1], pairs[n][2])

\* the value returned by get_response
ParseErr(err) == [err |-> err, code |-> None, state |-> None]

\* a get_response that looks for the state before the code
GetResponseStateFirst(url) ==
    LET queries == Collect(url, Len(url))
    IN  IF DOMAIN queries = {} THEN ParseErr("empty")
        ELSE IF URL_STATE \notin DOMAIN queries THEN ParseErr("no_state")
        ELSE IF URL_AUTH_CODE \notin DOMAIN queries THEN ParseErr("no_code")
        ELSE [err |-> "ok", code |-> Some(queries[URL_AUTH_CODE]),
              state |-> Some(queries[URL_STATE])]

\* AuthManager::get_response
GetResponse(url) ==
    LET queries == Collect(url, Len(url))
    IN  IF DOMAIN queries = {} THEN ParseErr("empty")
        ELSE IF URL_AUTH_CODE \notin DOMAIN queries THEN ParseErr("no_code")
        ELSE IF URL_STATE \notin DOMAIN queries THEN ParseErr("no_state")
        ELSE [err |-> "ok", code |-> Some(queries[URL_AUTH_CODE]),
              state |-> Some(queries[URL_STATE])]

\* a redirect URL arrives
InitParse ==
    /\ Constructed
    /\ response \in Urls
    /\ parsed = None

\* Framework::authenticate, lines 99-102: get_response is applied to it
GetResponseCall ==
    /\ parsed' = Some(GetResponse(response))
    /\ UNCHANGED << auth, storage, pc, locals, gen, requests, consumed, phase,
                    ret, response >>

NextParse == GetResponseCall

SpecParse == InitParse /\ [][NextParse]_vars

\* ------------------------------------------------------------------ properties
\* the TokenSet of an AuthManager: id token, access token, refresh token, claims
Tokens(a) == << a.id_token, a.access_token, a.refresh_token, a.claims >>
HasTokenSet(a) == IsSome(a.access_token) \/ IsSome(a.id_token) \/ IsSome(a.claims)

\* the errors of exchange_token that say that no challenge is active
NoActiveChallengeErrors == {"not_initiated", "load_failed"}

\* every check of an exchange passes for the suspended call l and the
\* token_result tr
PassesEveryCheck(l, tr) ==
    /\ l.csrf = l.state
    /\ tr.ok
    /\ IsSome(tr.id_token)
    /\ LET id == Unwrap(tr.id_token)
       IN  /\ id.valid
           /\ id.nonce = l.nonce
           /\ IsSome(id.at_hash) =>
                 /\ id.alg = "RS256"
                 /\ Unwrap(id.at_hash) = AtHash(tr.access_token)

\* the step is a call of exchange_token that returns (it does not suspend)
\* without having been suspended
ReturnsAtOnce == ret'.op = "exchange_token" /\ pc = "ready" /\ pc' = "ready"

\* C1: a call of exchange_token whose challenge material carries a csrf
\* token other than the state of the response returns the CSRF error, sends
\* no token request and leaves the id token, access token, refresh token and
\* claims as they were.
C1_CsrfProtection ==
    [][ (/\ ret'.op = "exchange_token"
         /\ IsSome(ret'.used)
         /\ Unwrap(ret'.used).csrf # Unwrap(ret'.state))
        => (/\ ret'.err = "csrf"
            /\ pc' = "ready"
            /\ requests' = requests
            /\ Tokens(auth') = Tokens(auth)) ]_vars

C1_Witness ==
    /\ ret.op = "exchange_token"
    /\ ret.err = "csrf"
    /\ IsSome(ret.used)
    /\ Unwrap(ret.used).csrf # Unwrap(ret.state)
    /\ requests = 0

\* C2: a TokenSet appears on the session only in a step in which a suspended
\* exchange_token resumes with a response that passes every check (state
\* equal to the csrf, exchange succeeded, id token present, claims verified
\* against the stored nonce, declared access token hash equal to the
\* recomputed one); a call in which a check fails returns an error and
\* leaves the tokens as they were, and a stored TokenSet is a verified one.
C2_TokenSetOnlyAfterEveryCheck ==
    /\ [](HasTokenSet(auth) =>
            /\ Unwrap(auth.id_token).valid
            /\ Unwrap(auth.id_token).nonce = Unwrap(auth.claims).nonce
            /\ IsSome(Unwrap(auth.claims).at_hash) =>
                 Unwrap(Unwrap(auth.claims).at_hash)
                     = AtHash(Unwrap(auth.access_token)))
    /\ [][ /\ (Tokens(auth') # Tokens(auth) /\ HasTokenSet(auth')) =>
                \E tr \in TokenResults :
                    /\ pc = "awaiting"
                    /\ PassesEveryCheck(Unwrap(locals), tr)
                    /\ ExchangeResume(tr)
           /\ ReturnsAtOnce =>
                (ret'.err # "ok" /\ Tokens(auth') = Tokens(auth))
           /\ (ret'.op = "exchange_token" /\ pc = "awaiting") =>
                \A tr \in TokenResults :
                    (~PassesEveryCheck(Unwrap(locals), tr) /\ ExchangeResume(tr))
                        => (ret'.err # "ok" /\ Tokens(auth') = Tokens(auth)) ]_vars

C2_Witness ==
    /\ ret.op = "exchange_token"
    /\ ret.err = "ok"
    /\ HasTokenSet(auth)
    /\ IsSome(Unwrap(auth.claims).at_hash)

\* C3 (as claimed): from every state of a session a call of
\* init_authentication whose store writes succeed returns a URL and leaves the
\* session Initiated with fresh challenge material.
C3_InitiateFromEveryState ==
    [][ InitAuthentication(0) =>
            /\ ret'.err = "ok"
            /\ IsSome(ret'.url)
            /\ phase' = "Initiated"
            /\ IsSome(auth'.pkce)
            /\ auth'.pkce # auth.pkce ]_vars

\* C4 (as claimed): after exchange_token failed with the CSRF error the
\* session holds no challenge material, and the next exchange_token on the
\* session with the same response fails with a no-active-challenge error.
C4_CsrfFailureClearsMaterial ==
    [][ (ret.op = "exchange_token" /\ ret.err = "csrf") =>
            /\ auth.pkce = None
            /\ (ret'.op = "exchange_token" /\ ret'.state = ret.state) =>
                    ret'.err \in NoActiveChallengeErrors ]_vars

\* C5 (as claimed): the challenge material an exchange_token destructures was
\* never destructured by an earlier exchange_token, of this instance or of
\* another one over the same storage.
C5_MaterialUsedOnce ==
    [][ (ret'.op = "exchange_token" /\ pc = "ready" /\ IsSome(ret'.used)) =>
            Unwrap(ret'.used) \notin consumed ]_vars

\* C6 (as claimed): after every return of exchange_token the session holds no
\* in-memory challenge material.
C6_NoMaterialAfterExchange ==
    (ret.op = "exchange_token" /\ pc = "ready") => auth.pkce = None

\* C7: exchange_token on a session that holds no challenge material, called
\* with no storage or with a storage that lacks challenge material, returns a
\* no-active-challenge error, sends no token request and leaves the session
\* as it was.
C7_NoActiveChallenge ==
    [][ (ret'.op = "exchange_token" /\ pc = "ready" /\ auth.pkce = None) =>
        \A code \in Codes, hasStore \in BOOLEAN, getErr \in GetErrs :
          (/\ ~hasStore \/ \E k \in StoreKeys : StorageGet(storage, k) = None
           /\ ExchangeStart(code, Unwrap(ret'.state), hasStore, getErr))
          => (/\ ret'.err \in NoActiveChallengeErrors
              /\ ret'.err = (IF hasStore THEN "load_failed" ELSE "not_initiated")
              /\ pc' = "ready"
              /\ requests' = requests
              /\ auth' = auth) ]_vars

C7_Witness ==
    /\ ret.op = "exchange_token"
    /\ ret.err \in NoActiveChallengeErrors
    /\ phase = "Failed"
    /\ auth = AuthManagerNew
    /\ requests = 0

\* C8: the id token, the access token and the claims of the session are all
\* absent or all present, and a refresh token is present only with them.
C8_NoHalfWrittenTokenSet ==
    /\ IsSome(auth.id_token) <=> IsSome(auth.access_token)
    /\ IsSome(auth.access_token) <=> IsSome(auth.claims)
    /\ IsSome(auth.refresh_token) => IsSome(auth.access_token)

C8_Witness ==
    /\ ret.op = "exchange_token"
    /\ ret.err = "tamper"
    /\ ~HasTokenSet(auth)
    /\ auth.refresh_token = None

\* C9: a TokenSet that is present on a session stays as it is in every step
\* of that session other than a successful exchange_token.
C9_TokenSetStays ==
    [][ (/\ HasTokenSet(auth)
         /\ ret'.op # "new"
         /\ ~(ret'.op = "exchange_token" /\ ret'.err = "ok"))
        => Tokens(auth') = Tokens(auth) ]_vars

C9_Witness ==
    /\ HasTokenSet(auth)
    /\ ret.op = "load"
    /\ ret.err = "ok"
    /\ IsSome(auth.pkce)

\* C10: on a session left Initiated by init_authentication, exchange_token
\* with the state equal to the csrf of the material sends the token request,
\* and when the response carries tokens and an id token that passes every
\* check the call returns Ok and leaves the session Completed with the
\* returned access token, id token, claims and refresh token.
C10_HappyPath ==
    [][ (ret'.op = "exchange_token" /\ phase = "Initiated") =>
        /\ \A code \in Codes, state \in States, hasStore \in BOOLEAN,
              getErr \in GetErrs :
             (/\ pc = "ready"
              /\ IsSome(auth.pkce)
              /\ Unwrap(auth.pkce).csrf = state
              /\ ExchangeStart(code, state, hasStore, getErr))
             => (/\ pc' = "awaiting"
                 /\ requests' = requests + 1
                 /\ phase' = "Initiated"
                 /\ Unwrap(locals').verifier = Unwrap(auth.pkce).verifier
                 /\ Unwrap(locals').code = code)
        /\ \A tr \in TokenResults :
             (/\ pc = "awaiting"
              /\ PassesEveryCheck(Unwrap(locals), tr)
              /\ ExchangeResume(tr))
             => (/\ ret'.err = "ok"
                 /\ phase' = "Completed"
                 /\ auth'.access_token = Some(tr.access_token)
                 /\ auth'.id_token = tr.id_token
                 /\ auth'.refresh_token = tr.refresh_token
                 /\ auth'.claims =
                      Some([nonce |-> Unwrap(tr.id_token).nonce,
                            at_hash |-> Unwrap(tr.id_token).at_hash])) ]_vars

C10_Witness ==
    /\ phase = "Completed"
    /\ ret.op = "exchange_token"
    /\ ret.err = "ok"
    /\ auth.access_token = Some(12)
    /\ IsSome(auth.refresh_token)

\* the URL has a query pair with the key k
HasParam(url, k) == \E i \in 1..Len(url) : url[i][1] = k

\* the value of the last query pair of the URL with the key k
LastParam(url, k) ==
    LET i == CHOOSE i \in 1..Len(url) :
                 /\ url[i][1] = k
                 /\ \A j \in (i + 1)..Len(url) : url[j][1] # k
    IN  url[i][2]

\* the query pair is one of the two that get_response looks up
IsCodeOrState(pair) == pair[1] \in {URL_AUTH_CODE, URL_STATE}

Absent == {k \in StoreKeys : StorageGet(storage, k) = None}

\* C12: PKCE::load_from is all-or-nothing: a load yields material only when
\* verifier, csrf and nonce are all present, and then exactly the stored
\* triple; with one or two keys absent it fails with the same error as with
\* all three absent, and self keeps the material it had.
C12_LoadAllOrNothing ==
    [][\A getErr \in GetErrs :
         (ret'.op = "load" /\ Load(getErr)) =>
            /\ (ret'.err = "ok") = (Absent = {} /\ getErr = {})
            /\ ret'.err = "ok" =>
                 auth'.pkce = Some(PkceNew(storage[ID_VERIFIER], storage[ID_CSRF],
                                           storage[ID_NONCE]))
            /\ (Absent # {} /\ getErr = {}) => ret'.err = "no_data"
            /\ ret'.err # "ok" => auth' = auth]_vars

C12_Witness ==
    /\ ret.op = "load"
    /\ ret.err = "no_data"
    /\ DOMAIN storage = {ID_VERIFIER}
    /\ auth.pkce = None

\* C13: tokens are never persisted: the store holds no keys other than
\* verifier, csrf and nonce, and each of its values is a secret drawn by
\* init_authentication, never an access token, a refresh token or an id token
\* (an id token is a record and no stored value is one).
C13_TokensNeverPersisted ==
    /\ DOMAIN storage \subseteq StoreKeys
    /\ \A k \in DOMAIN storage :
         /\ storage[k] \in 1..gen
         /\ storage[k] \notin AccessTokens \cup RefreshTokens

C13_Witness ==
    /\ HasTokenSet(auth)
    /\ ret.op = "store"
    /\ ret.err = "ok"
    /\ DOMAIN storage = StoreKeys

\* every fully populated challenge material over the secrets drawn
Materials == {PkceNew(v, c, n) : v \in Secrets, c \in Secrets, n \in Secrets}

\* C14: round trip: for every fully populated material m, PKCE::store of m
\* into the store with every write succeeding, then PKCE::load_from, yields m;
\* in particular after a successful store of self the store loads as the
\* material of self.
C14_StoreLoadRoundTrip ==
    /\ \A m \in Materials :
         LET w == PkceStore(m, storage, 0)
             l == PkceLoadFrom(w.storage, {})
         IN  w.ok /\ l.ok /\ l.pkce = Some(m)
    /\ (ret.op = "store" /\ ret.err = "ok" /\ IsSome(auth.pkce)) =>
         PkceLoadFrom(storage, {}).pkce = auth.pkce

C14_Witness ==
    /\ ret.op = "store"
    /\ ret.err = "ok"
    /\ IsSome(auth.pkce)
    /\ Unwrap(auth.pkce).csrf # Unwrap(auth.pkce).nonce
    /\ PkceLoadFrom(storage, {}).pkce = auth.pkce

\* the store holds exactly the material p
StoreHolds(p) ==
    /\ DOMAIN storage = StoreKeys
    /\ storage[ID_VERIFIER] = p.verifier
    /\ storage[ID_CSRF] = p.csrf
    /\ storage[ID_NONCE] = p.nonce

\* C15: init_authentication returns a URL exactly when it returns Ok, and
\* then the store holds the in-memory material of self and the URL carries
\* the stored csrf as state, the stored nonce as nonce and the challenge of
\* the stored verifier as code_challenge.
C15_InitiatePersistsWhatUrlCarries ==
    ret.op = "init_authentication" =>
        /\ IsSome(ret.url) = (ret.err = "ok")
        /\ ret.err = "ok" =>
             /\ IsSome(auth.pkce)
             /\ StoreHolds(Unwrap(auth.pkce))
             /\ Unwrap(ret.url).state = storage[ID_CSRF]
             /\ Unwrap(ret.url).nonce = storage[ID_NONCE]
             /\ Unwrap(ret.url).code_challenge = S256(storage[ID_VERIFIER])

C15_Witness ==
    /\ ret.op = "init_authentication"
    /\ ret.err = "ok"
    /\ gen = 2
    /\ Unwrap(ret.url).state = 2
    /\ storage[ID_CSRF] = 2

\* C16: last attempt wins: a successful init_authentication that follows an
\* earlier successful one on the same instance, with no exchange_token in
\* between, leaves self and the store with the material of the second call
\* only, none of it a secret of an earlier call; an exchange_token that
\* follows a successful init_authentication passes the CSRF check (the token
\* request is sent) when the state is the csrf of that last call, and fails
\* with the CSRF error for every other state, the csrf of an earlier call
\* included.
C16_LastAttemptWins ==
    [][/\ (phase = "Initiated" /\ ret'.op = "init_authentication"
           /\ ret'.err = "ok") =>
             /\ auth'.pkce = Some(PkceNew(gen', gen', gen'))
             /\ \A k \in StoreKeys :
                  StorageGet(storage', k) = Some(gen') /\ gen' \notin 1..gen
       /\ (pc = "ready" /\ ret.op = "init_authentication" /\ ret.err = "ok"
           /\ ret'.op = "exchange_token") =>
             /\ Unwrap(ret'.state) = Unwrap(ret.url).state =>
                  ret'.err = "pending" /\ requests' = requests + 1
             /\ Unwrap(ret'.state) # Unwrap(ret.url).state =>
                  ret'.err = "csrf" /\ requests' = requests]_vars

C16_Witness ==
    /\ phase = "Failed"
    /\ ret.op = "exchange_token"
    /\ ret.err = "csrf"
    /\ ret.state = Some(1)
    /\ ret.used = Some(PkceNew(2, 2, 2))
    /\ StoreHolds(PkceNew(2, 2, 2))

\* C17 (as claimed): an init_authentication whose store write fails returns
\* the storage error and no URL and leaves the in-memory material as it was
\* before the call; an exchange_token whose store read fails returns an error
\* and leaves the material, the client and the tokens as they were.
C17_StorageFailureLeavesState ==
    [][/\ (ret'.op = "init_authentication" /\ ret'.err = "storage") =>
             /\ ret'.url = None
             /\ auth'.pkce = auth.pkce
       /\ (ret'.op = "exchange_token" /\ ret'.err = "load_failed") =>
             auth' = auth]_vars

\* C18: while exchange_token is suspended on the token request, and when the
\* host abandons it there, the id token, access token, refresh token and
\* claims are as they were before the call, and the abandoned instance holds
\* none; they are written only by the step that resumes the call with a
\* token response that passes every check.
C18_CancellationCommitsNothing ==
    [][/\ pc' \in {"awaiting", "dropped"} =>
             /\ Tokens(auth') = Tokens(auth)
             /\ ~HasTokenSet(auth')
       /\ (ret'.op # "new" /\ Tokens(auth') # Tokens(auth)) =>
             /\ pc = "awaiting"
             /\ pc' = "ready"
             /\ ret'.op = "exchange_token"
             /\ ret'.err = "ok"
             /\ \E tr \in TokenResponses :
                  /\ PassesEveryCheck(Unwrap(locals), tr)
                  /\ ExchangeResume(tr)]_vars

C18_Witness ==
    /\ pc = "dropped"
    /\ ret.op = "drop"
    /\ requests = 1
    /\ ~HasTokenSet(auth)
    /\ auth.pkce = None

\* C19: exchange_token reads the store only when self holds no material: with
\* material in self the call never fails for the store (whatever the store
\* holds and whether or not one is given), the material used is that of
\* self, its csrf decides the CSRF check, and its verifier and nonce are the
\* ones the suspended call sends and verifies with; the store is not written.
C19_MemoryMaterialFirst ==
    [][(pc = "ready" /\ ret'.op = "exchange_token" /\ IsSome(auth.pkce)) =>
          LET p == Unwrap(auth.pkce)
          IN  /\ ret'.err \notin NoActiveChallengeErrors
              /\ storage' = storage
              /\ ~auth.client => (ret'.err = "no_client" /\ auth' = auth)
              /\ auth.client =>
                   /\ ret'.used = auth.pkce
                   /\ (ret'.err = "pending") = (Unwrap(ret'.state) = p.csrf)
                   /\ (ret'.err # "pending") => ret'.err = "csrf"
                   /\ (ret'.err = "pending") =>
                        /\ Unwrap(locals').verifier = p.verifier
                        /\ Unwrap(locals').csrf = p.csrf
                        /\ Unwrap(locals').nonce = p.nonce]_vars

C19_Witness ==
    /\ pc = "awaiting"
    /\ ret.op = "exchange_token"
    /\ ret.used = Some(PkceNew(2, 2, 2))
    /\ Unwrap(locals).verifier = 2
    /\ StoreHolds(PkceNew(1, 1, 1))

\* the errors of a call that found no client in self
NoClientErrors == {"no_client", "no_client_init"}

\* C20 (as claimed): an instance sends at most one token request, and once
\* the client is taken every later exchange_token or init_authentication on
\* the instance fails with a no-client error.
C20_EveryLaterCallNoClient ==
    [][/\ requests' <= 1
       /\ (~auth.client /\ pc = "ready"
           /\ ret'.op \in {"exchange_token", "init_authentication"}) =>
             ret'.err \in NoClientErrors]_vars

\* C20 (amended): an instance sends at most one token request: the client is
\* taken out of self by the first exchange_token that finds material and is
\* never put back; every later init_authentication fails with the no-client
\* error, and every later exchange_token fails without a token request: with
\* the no-client error when self holds material or loads it from the store,
\* and with a no-active-challenge error when self holds none and no store is
\* given or the load fails.
C20_AtMostOneTokenRequest ==
    [][/\ requests' <= 1
       /\ (auth.client /\ ~auth'.client) =>
             (ret'.op = "exchange_token" /\ IsSome(ret'.used))
       /\ (~auth.client /\ ret'.op # "new") => ~auth'.client
       /\ (~auth.client /\ ret'.op = "init_authentication") =>
             /\ ret'.err = "no_client_init"
             /\ ret'.url = None
             /\ auth' = auth
             /\ requests' = requests
       /\ (~auth.client /\ pc = "ready" /\ ret'.op = "exchange_token") =>
             /\ ret'.err \in NoClientErrors \cup NoActiveChallengeErrors
             /\ requests' = requests
             /\ pc' = "ready"
             /\ IsSome(auth.pkce) => ret'.err = "no_client"
             /\ (ret'.err = "no_client") = IsSome(auth'.pkce)
             /\ ret'.err \in NoActiveChallengeErrors => auth' = auth]_vars

C20_Witness ==
    /\ ~auth.client
    /\ requests = 1
    /\ pc = "ready"
    /\ ret.op = "exchange_token"
    /\ ret.err = "no_client"
    /\ IsSome(auth.pkce)

\* the material p was drawn by one call of init_authentication: the call
\* that draws the n-th secrets draws n as verifier, as csrf and as nonce
OneAttempt(p) == p.verifier = p.csrf /\ p.csrf = p.nonce

\* C21 (as claimed): whatever writes of PKCE::store failed, a store that
\* holds all three keys holds the verifier, csrf and nonce of one and the
\* same init_authentication call, and the material a successful load leaves
\* in self never mixes the secrets of two calls.
C21_StoreCoherence ==
    /\ Absent = {} =>
         OneAttempt(PkceNew(storage[ID_VERIFIER], storage[ID_CSRF],
                            storage[ID_NONCE]))
    /\ (ret.op = "load" /\ ret.err = "ok") => OneAttempt(Unwrap(auth.pkce))

====
